---- MODULE Spec2Model ----
(***************************************************************************)
(* iperf3_exporter: the /probe handler (parameter resolution), the         *)
(* process-wide result cache (cacheMap) and Exporter.Collect, as a state   *)
(* machine of concurrent HTTP requests.                                    *)
(*                                                                         *)
(* Units.  Wall-clock time (time.Now, lastExport, cacheTime) is counted in *)
(* whole minutes.  Request durations (period, timeout) are counted in      *)
(* milliseconds.  The two never meet in the code: the deadline of a probe  *)
(* is enforced by the context, modelled as an outcome of the probe.        *)
(* Strings that the code parses are sequences of one-character strings;    *)
(* the target, which is only compared and used as a map key, is a string.  *)
(***************************************************************************)
EXTENDS Integers, Sequences, FiniteSets, TLC

(***************************************************************************)
(* strconv / time parsing, as far as the inputs of the model need it       *)
(***************************************************************************)
DigitChars == <<"0", "1", "2", "3", "4", "5", "6", "7", "8", "9">>

IsDigit(c) == \E i \in 1..10 : DigitChars[i] = c

DigitVal(c) == (CHOOSE i \in 1..10 : DigitChars[i] = c) - 1

AllDigits(s) == Len(s) > 0 /\ \A i \in 1..Len(s) : IsDigit(s[i])

RECURSIVE DecVal(_, _)
DecVal(s, acc) ==
    IF s = <<>> THEN acc ELSE DecVal(Tail(s), acc * 10 + DigitVal(Head(s)))

\* number of leading characters of s that are digits
RECURSIVE LeadingDigits(_)
LeadingDigits(s) ==
    IF s = <<>> \/ ~IsDigit(Head(s)) THEN 0 ELSE 1 + LeadingDigits(Tail(s))

\* number of leading characters of s that are neither a digit nor '.'
RECURSIVE LeadingUnit(_)
LeadingUnit(s) ==
    IF s = <<>> \/ IsDigit(Head(s)) \/ Head(s) = "." THEN 0
    ELSE 1 + LeadingUnit(Tail(s))

HasSign(s) == Len(s) > 0 /\ s[1] \in {"+", "-"}

Unsigned(s) == IF HasSign(s) THEN Tail(s) ELSE s

IsNeg(s) == Len(s) > 0 /\ s[1] = "-"

\* strconv.Atoi: an optional sign and one or more decimal digits; anything
\* else is a syntax error (and the value returned with the error is 0).
Atoi(s) ==
    IF ~AllDigits(Unsigned(s)) THEN [err |-> TRUE, val |-> 0]
    ELSE [err |-> FALSE,
          val |-> IF IsNeg(s) THEN 0 - DecVal(Unsigned(s), 0)
                  ELSE DecVal(Unsigned(s), 0)]

\* strconv.ParseInt(s, 10, 64): the same grammar as Atoi.
ParseInt(s) ==
    IF ~AllDigits(Unsigned(s)) THEN [err |-> TRUE, val |-> 0]
    ELSE [err |-> FALSE,
          val |-> IF IsNeg(s) THEN 0 - DecVal(Unsigned(s), 0)
                  ELSE DecVal(Unsigned(s), 0)]

\* time.ParseDuration's unitMap, in milliseconds; 0 stands for "unknown unit".
\* (ns, us and fractions are below the model's resolution: no input uses them.)
UnitMs(u) ==
    CASE u = <<"m", "s">> -> 1
      [] u = <<"s">> -> 1000
      [] u = <<"m">> -> 60000
      [] u = <<"h">> -> 3600000
      [] OTHER -> 0

\* the loop of time.ParseDuration: one or more <digits><unit> groups
RECURSIVE DurationGroups(_)
DurationGroups(s) ==
    IF s = <<>> THEN [err |-> FALSE, val |-> 0]
    ELSE LET n == LeadingDigits(s)
             rest == SubSeq(s, n + 1, Len(s))
             k == LeadingUnit(rest)
             u == SubSeq(rest, 1, k)
             more == DurationGroups(SubSeq(rest, k + 1, Len(rest)))
         IN  IF n = 0 \/ k = 0 \/ UnitMs(u) = 0 THEN [err |-> TRUE, val |-> 0]
             ELSE IF more.err THEN [err |-> TRUE, val |-> 0]
             ELSE [err |-> FALSE,
                   val |-> DecVal(SubSeq(s, 1, n), 0) * UnitMs(u) + more.val]

\* time.ParseDuration: [-+]? then "0", or groups; "" and a bare sign are errors.
ParseDuration(s) ==
    LET body == Unsigned(s)
        g == DurationGroups(body)
    IN  IF body = <<"0">> THEN [err |-> FALSE, val |-> 0]
        ELSE IF body = <<>> \/ g.err THEN [err |-> TRUE, val |-> 0]
        ELSE [err |-> FALSE, val |-> IF IsNeg(s) THEN 0 - g.val ELSE g.val]

\* A float64 number of seconds: kind "fin" with its value in milliseconds,
\* "nan", or "inf" with ms = 1 (+Inf) or -1 (-Inf).
Fin(ms) == [kind |-> "fin", ms |-> ms]

NaN == [kind |-> "nan", ms |-> 0]

Inf(sign) == [kind |-> "inf", ms |-> sign]

LowerChar(c) ==
    CASE c = "N" -> "n" [] c = "A" -> "a" [] c = "I" -> "i" [] c = "F" -> "f"
      [] OTHER -> c

Lower(s) == [i \in 1..Len(s) |-> LowerChar(s[i])]

\* the fraction digits of a decimal, as thousandths
Thousandths(f) ==
    CASE Len(f) = 0 -> 0
      [] Len(f) = 1 -> DecVal(f, 0) * 100
      [] Len(f) = 2 -> DecVal(f, 0) * 10
      [] OTHER -> DecVal(SubSeq(f, 1, 3), 0)

\* strconv.ParseFloat(s, 64): "nan", [+-]?"inf" (any case), or a decimal
\* [+-]?digits[.digits] with at least one digit.  (Exponents, hex floats and
\* more than three fraction digits are outside the inputs of the model.)
ParseFloat(s) ==
    LET body == Unsigned(s)
        n == LeadingDigits(body)
        rest == SubSeq(body, n + 1, Len(body))
        frac == IF rest # <<>> /\ rest[1] = "." THEN Tail(rest) ELSE <<>>
        decimal == /\ rest = <<>> \/ (rest[1] = "." /\ \A i \in 1..Len(frac) : IsDigit(frac[i]))
                   /\ n + Len(frac) > 0
                   /\ Len(frac) <= 3
        mag == DecVal(SubSeq(body, 1, n), 0) * 1000 + Thousandths(frac)
    IN  IF Lower(s) = <<"n", "a", "n">> THEN [err |-> FALSE, val |-> NaN]
        ELSE IF Lower(body) \in {<<"i", "n", "f">>, <<"i", "n", "f", "i", "n", "i", "t", "y">>}
        THEN [err |-> FALSE, val |-> Inf(IF IsNeg(s) THEN -1 ELSE 1)]
        ELSE IF decimal
        THEN [err |-> FALSE, val |-> Fin(IF IsNeg(s) THEN 0 - mag ELSE mag)]
        ELSE [err |-> TRUE, val |-> Fin(0)]

\* the decimal digits of a natural number
RECURSIVE Digits(_)
Digits(n) ==
    IF n < 10 THEN <<DigitChars[n + 1]>>
    ELSE Digits(n \div 10) \o <<DigitChars[(n % 10) + 1]>>

\* strconv.Itoa
Itoa(n) == IF n < 0 THEN <<"-">> \o Digits(0 - n) ELSE Digits(n)

\* strconv.FormatFloat(d.Seconds(), 'f', 0, 64) for a duration d of ms
\* milliseconds: no fraction digits, rounded to the nearest integer, a tie
\* (exactly .5, which float64 holds exactly) to the even one; the sign is kept
FormatFloat(ms) ==
    LET mag == IF ms < 0 THEN 0 - ms ELSE ms
        q == mag \div 1000
        r == mag % 1000
        rounded == IF r > 500 \/ (r = 500 /\ q % 2 = 1) THEN q + 1 ELSE q
    IN  (IF ms < 0 THEN <<"-">> ELSE <<>>) \o Digits(rounded)

(***************************************************************************)
(* Bounds and input sets of the model                                      *)
(***************************************************************************)
\* number of /probe requests the process receives
NumRequests == 2

\* the wall clock runs from minute 0 to minute MaxNow
MaxNow == 1

Sessions == 1..NumRequests

\* the query parameter "target" ("" is a missing or empty parameter)
TargetInputs == {"", "a", "b"}

\* the query parameters "port", "thread", "period" and the header
\* X-Prometheus-Scrape-Timeout-Seconds (<<>> is a missing or empty one)
PortInputs == {<<>>, <<"0">>, <<"8", "0">>, <<"a", "b", "c">>}

ThreadInputs == {<<>>, <<"0">>, <<"-", "3">>, <<"4">>, <<"x">>}

PeriodInputs ==
    {<<>>, <<"0">>, <<"2", "s">>, <<"5", "0", "0", "m", "s">>, <<"-", "5", "s">>, <<"5">>}

HeaderInputs ==
    {<<>>, <<"0">>, <<"1", "0">>, <<"4", "5">>, <<"0", ".", "5">>, <<"-", "5">>,
     <<"N", "a", "N">>, <<"-", "I", "n", "f">>, <<"+", "I", "n", "f">>,
     <<"n", "o", "t", "a", "n", "u", "m", "b", "e", "r">>}

Request(t, p, th, pe, h) ==
    [target |-> t, port |-> p, thread |-> th, period |-> pe, header |-> h]

\* every combination of the inputs
AllRequests ==
    {Request(t, p, th, pe, h) :
        t \in TargetInputs, p \in PortInputs, th \in ThreadInputs,
        pe \in PeriodInputs, h \in HeaderInputs}

\* the requests of the concurrent specification: a target, and at most one
\* other parameter given, which is unparseable
ScrapeRequests ==
    {r \in AllRequests :
        /\ Cardinality({f \in {"port", "thread", "period", "header"} : r[f] # <<>>}) <= 1
        /\ r.port \in {<<>>, <<"a", "b", "c">>}
        /\ r.thread \in {<<>>, <<"x">>}
        /\ r.period \in {<<>>, <<"5">>}
        /\ r.header \in {<<>>, <<"n", "o", "t", "a", "n", "u", "m", "b", "e", "r">>}}

\* --iperf3.timeout, in milliseconds (kingpin's Duration flag takes any
\* duration, negative ones included; its default is 30s)
TimeoutFlags == {30000, 0, 10000, 45000, -5000}

\* the environment variable CACHE_TIME: unset, or set to a string
CacheTimeEnv ==
    {[ok |-> FALSE, val |-> <<>>],
     [ok |-> TRUE, val |-> <<"0">>],
     [ok |-> TRUE, val |-> <<"1">>],
     [ok |-> TRUE, val |-> <<"-", "1">>],
     [ok |-> TRUE, val |-> <<"a", "b", "c">>],
     [ok |-> TRUE, val |-> <<"6", "0", "0", "0", "0", "0">>]}

\* what a successful iperf3 run can report in end.sum_sent / end.sum_received
ProbeOutputs ==
    {[sentSeconds |-> 5, sentBytes |-> 100, receivedSeconds |-> 5, receivedBytes |-> 90],
     [sentSeconds |-> 6, sentBytes |-> 200, receivedSeconds |-> 7, receivedBytes |-> 180]}

\* the length of the year before time.Now(), in minutes (365 or 366 days)
YearMinutes == {525600, 527040}

\* the flag and the environment of the concurrent specification: the default
\* timeout, and CACHE_TIME unset (60 minutes), 0, 1 or 600000 minutes
ScrapeTimeoutFlags == {30000}

ScrapeCacheTimeEnv == {env \in CacheTimeEnv : env.val \notin {<<"-", "1">>, <<"a", "b", "c">>}}

(***************************************************************************)
(* Program constants                                                       *)
(***************************************************************************)
DefaultPort == 5201

DefaultThread == 1

\* time.Second * 5, in milliseconds
DefaultPeriod == 5000

\* the fallback timeout and the ceiling, 30 seconds, in milliseconds
FallbackTimeout == 30000

MaxTimeout == 30000

\* time.Hour * 1, in minutes
DefaultCacheMinutes == 60

StatusBadRequest == 400

StatusInternalServerError == 500

StatusOK == 200

(***************************************************************************)
(* State                                                                   *)
(***************************************************************************)
VARIABLES
    timeout,        \* the flag --iperf3.timeout (ms)
    cacheTime,      \* the TTL, fixed at startup (minutes)
    cacheMap,       \* target -> pointer to its CacheExporter
    heap,           \* pointer -> CacheExporter (the entries ever allocated)
    now,            \* time.Now() (minutes)
    iperfErrors,    \* the counter iperf3_exporter_errors_total
    iperfDuration,  \* number of observations of the duration summary
    pc,             \* where each request is
    request,        \* the parameters and the header each request came with
    exporter,       \* the Exporter of each request (target, port, thread, ...)
    mutex,          \* each Exporter's own mutex field: locked or not
    cur,            \* Collect's local currentCacheExport (0 is nil)
    stats,          \* Collect's local stats (the parsed probe output)
    ch,             \* the metrics each Collect has sent on its channel
    response,       \* the HTTP status each request was answered with (0: none yet)
    errorLog,       \* what each Collect has logged with log.Errorf ("": nothing)
    fatal,          \* the runtime has thrown a fatal error: the process is gone
    probeCalls,     \* history: number of iperf3 runs each request has started
    iperfArgs,      \* Collect's local iperfArgs (<<>>: not built)
    before          \* history: the requests that had ended when each request began

vars ==
    <<timeout, cacheTime, cacheMap, heap, now, iperfErrors, iperfDuration, pc,
      request, exporter, mutex, cur, stats, ch, response, errorLog, fatal, probeCalls,
      iperfArgs, before>>

\* a float64 number of seconds: comparisons of the handler
IsZero(f) == f.kind = "fin" /\ f.ms = 0

\* f > 30 (false for NaN)
ExceedsMax(f) == (f.kind = "fin" /\ f.ms > MaxTimeout) \/ (f.kind = "inf" /\ f.ms > 0)

\* A time.Duration: sat = 0 is the finite value ms (milliseconds); sat = 1 is
\* math.MaxInt64 nanoseconds and sat = -1 is math.MinInt64 nanoseconds.
Duration(ms) == [sat |-> 0, ms |-> ms]

MaxInt64 == [sat |-> 1, ms |-> 0]

MinInt64 == [sat |-> -1, ms |-> 0]

\* time.Duration(f * float64(time.Second)): the results the conversion can
\* have.  A finite product is truncated to nanoseconds (exact for values in
\* whole milliseconds).  NaN and -Inf are not representable as int64: the Go
\* specification leaves the result to the implementation (amd64 gives
\* MinInt64 for both, arm64 gives 0 for NaN and saturates, riscv64 gives
\* MaxInt64 for NaN and saturates).
DurationOfFloat(f) ==
    CASE f.kind = "fin" -> {Duration(f.ms)}
      [] f.kind = "nan" -> {MinInt64, Duration(0), MaxInt64}
      [] f.kind = "inf" /\ f.ms < 0 -> {MinInt64}
      [] OTHER -> {MaxInt64}

\* d > 0, for a Duration
IsPositive(d) == d.sat = 1 \/ (d.sat = 0 /\ d.ms > 0)

(***************************************************************************)
(* GetCacheTimeOrDefault, NewExpiredCacheExporter                          *)
(***************************************************************************)
GetCacheTimeOrDefault(env) ==
    IF env.ok /\ ~ParseInt(env.val).err THEN ParseInt(env.val).val
    ELSE DefaultCacheMinutes

\* the entry of a target seen for the first time; year is the length of the
\* year that AddDate(-1, 0, 0) goes back
NewExpiredCacheExporter(year) ==
    [lastExport |-> now - year,
     cachedThread |-> 0,
     cachedSentSeconds |-> 0,
     cachedSentBytes |-> 0,
     cachedReceivedSeconds |-> 0,
     cachedReceivedBytes |-> 0]

\* a stale check that forgets the TTL
IsStaleIgnoringTTL(entry) == now - entry.lastExport >= 0

\* a stale check that excludes the boundary
IsStaleStrict(entry) == now - entry.lastExport > cacheTime

\* time.Now().Sub(entry.lastExport) >= cacheTime
IsStale(entry) == now - entry.lastExport >= cacheTime

(***************************************************************************)
(* handler: parameter resolution                                           *)
(***************************************************************************)
Reject(status) ==
    [status |-> status, target |-> "", port |-> 0, thread |-> 0, period |-> 0,
     timeoutSeconds |-> Fin(0)]

\* r.URL.Query().Get / r.Header.Get give "" for a missing parameter, and the
\* code parses only a non-empty one
ParsedOrZero(raw, parsed) == IF raw # <<>> THEN parsed ELSE [err |-> FALSE, val |-> 0]

\* a resolution that prefers the flag to the header
ResolveTimeoutFlagFirst(hdr) ==
    LET defaulted == IF timeout > 0 THEN Fin(timeout)
                     ELSE IF IsZero(hdr) THEN Fin(FallbackTimeout) ELSE hdr
    IN  IF ExceedsMax(defaulted) THEN Fin(MaxTimeout) ELSE defaulted

\* lines 266-286: the header if given and non-zero, else the flag if positive,
\* else 30; then the ceiling of 30
ResolveTimeout(hdr) ==
    LET defaulted == IF IsZero(hdr)
                     THEN (IF timeout > 0 THEN Fin(timeout) ELSE Fin(FallbackTimeout))
                     ELSE hdr
    IN  IF ExceedsMax(defaulted) THEN Fin(MaxTimeout) ELSE defaulted

\* a handler that answers an unparseable period or header and goes on (a
\* missing return), with the zero value that the failed parse left
ResolveGoingOn(req) ==
    LET port == ParsedOrZero(req.port, Atoi(req.port))
        thread == ParsedOrZero(req.thread, Atoi(req.thread))
        period == ParsedOrZero(req.period, ParseDuration(req.period))
        hdr == IF req.header # <<>> THEN ParseFloat(req.header)
               ELSE [err |-> FALSE, val |-> Fin(0)]
    IN  IF req.target = "" THEN Reject(StatusBadRequest)
        ELSE IF port.err THEN Reject(StatusBadRequest)
        ELSE IF thread.err THEN Reject(StatusBadRequest)
        ELSE [status |-> StatusOK,
              target |-> req.target,
              port |-> IF port.val = 0 THEN DefaultPort ELSE port.val,
              thread |-> IF thread.val <= 0 THEN DefaultThread ELSE thread.val,
              period |-> IF period.val = 0 THEN DefaultPeriod ELSE period.val,
              timeoutSeconds |-> ResolveTimeout(hdr.val)]

\* a handler that defaults the thread count only when it is zero
ResolveThreadZeroOnly(req) ==
    LET port == ParsedOrZero(req.port, Atoi(req.port))
        thread == ParsedOrZero(req.thread, Atoi(req.thread))
        period == ParsedOrZero(req.period, ParseDuration(req.period))
        hdr == IF req.header # <<>> THEN ParseFloat(req.header)
               ELSE [err |-> FALSE, val |-> Fin(0)]
    IN  IF req.target = "" THEN Reject(StatusBadRequest)
        ELSE IF port.err THEN Reject(StatusBadRequest)
        ELSE IF thread.err THEN Reject(StatusBadRequest)
        ELSE IF period.err THEN Reject(StatusBadRequest)
        ELSE IF hdr.err THEN Reject(StatusInternalServerError)
        ELSE [status |-> StatusOK,
              target |-> req.target,
              port |-> IF port.val = 0 THEN DefaultPort ELSE port.val,
              thread |-> IF thread.val = 0 THEN DefaultThread ELSE thread.val,
              period |-> IF period.val = 0 THEN DefaultPeriod ELSE period.val,
              timeoutSeconds |-> ResolveTimeout(hdr.val)]

\* lines 213-286: the status to answer with, and for 200 the arguments of
\* NewExporter (the timeout still as float64 seconds)
Resolve(req) ==
    LET port == ParsedOrZero(req.port, Atoi(req.port))
        thread == ParsedOrZero(req.thread, Atoi(req.thread))
        period == ParsedOrZero(req.period, ParseDuration(req.period))
        hdr == IF req.header # <<>> THEN ParseFloat(req.header)
               ELSE [err |-> FALSE, val |-> Fin(0)]
    IN  IF req.target = "" THEN Reject(StatusBadRequest)
        ELSE IF port.err THEN Reject(StatusBadRequest)
        ELSE IF thread.err THEN Reject(StatusBadRequest)
        ELSE IF period.err THEN Reject(StatusBadRequest)
        ELSE IF hdr.err THEN Reject(StatusInternalServerError)
        ELSE [status |-> StatusOK,
              target |-> req.target,
              port |-> IF port.val = 0 THEN DefaultPort ELSE port.val,
              thread |-> IF thread.val <= 0 THEN DefaultThread ELSE thread.val,
              period |-> IF period.val = 0 THEN DefaultPeriod ELSE period.val,
              timeoutSeconds |-> ResolveTimeout(hdr.val)]

NoExporter ==
    [target |-> "", port |-> 0, thread |-> 0, period |-> 0, timeout |-> Duration(0)]

NewExporter(target, port, thread, period, runTimeout) ==
    [target |-> target, port |-> port, thread |-> thread, period |-> period,
     timeout |-> runTimeout]

NoStats ==
    [sentSeconds |-> 0, sentBytes |-> 0, receivedSeconds |-> 0, receivedBytes |-> 0]

(***************************************************************************)
(* Initial state                                                           *)
(***************************************************************************)
\* the state after startup, for the given flags and environments
InitWith(flags, envs) ==
    /\ timeout \in flags
    /\ \E env \in envs : cacheTime = GetCacheTimeOrDefault(env)
    /\ cacheMap = <<>>
    /\ heap = <<>>
    /\ now = 0
    /\ iperfErrors = 0
    /\ iperfDuration = 0
    /\ pc = [s \in Sessions |-> "Idle"]
    /\ request = [s \in Sessions |-> Request("", <<>>, <<>>, <<>>, <<>>)]
    /\ exporter = [s \in Sessions |-> NoExporter]
    /\ mutex = [s \in Sessions |-> FALSE]
    /\ cur = [s \in Sessions |-> 0]
    /\ stats = [s \in Sessions |-> NoStats]
    /\ ch = [s \in Sessions |-> <<>>]
    /\ response = [s \in Sessions |-> 0]
    /\ errorLog = [s \in Sessions |-> ""]
    /\ fatal = FALSE
    /\ probeCalls = [s \in Sessions |-> 0]
    /\ iperfArgs = [s \in Sessions |-> <<>>]
    /\ before = [s \in Sessions |-> {}]

Init == InitWith(ScrapeTimeoutFlags, ScrapeCacheTimeEnv)

InitHandler == InitWith(TimeoutFlags, CacheTimeEnv)

(***************************************************************************)
(* handler (lines 212-301) up to the call of Collect                       *)
(***************************************************************************)
\* Request s arrives (requests are numbered in the order of their arrival).
\* An invalid one is answered at once; for a valid one the handler builds
\* the Exporter and its registry, and ServeHTTP calls Collect.
handler(s, req) ==
    /\ ~fatal
    /\ pc[s] = "Idle"
    /\ \A t \in Sessions : t < s => pc[t] # "Idle"
    /\ before' = [before EXCEPT ![s] = {t \in Sessions : pc[t] = "Done"}]
    /\ request' = [request EXCEPT ![s] = req]
    /\ LET r == Resolve(req)
       IN  IF r.status # StatusOK
           THEN /\ response' = [response EXCEPT ![s] = r.status]
                /\ iperfErrors' = iperfErrors + 1
                /\ pc' = [pc EXCEPT ![s] = "Done"]
                /\ UNCHANGED exporter
           ELSE /\ \E d \in DurationOfFloat(r.timeoutSeconds) :
                      exporter' = [exporter EXCEPT ![s] =
                          NewExporter(r.target, r.port, r.thread, r.period, d)]
                /\ pc' = [pc EXCEPT ![s] = "Lock"]
                /\ UNCHANGED <<response, iperfErrors>>
    /\ UNCHANGED <<timeout, cacheTime, cacheMap, heap, now, iperfDuration, mutex,
                   cur, stats, ch, errorLog, fatal, probeCalls, iperfArgs>>

(***************************************************************************)
(* Exporter.Collect (lines 157-210), one step per access to shared state   *)
(***************************************************************************)
\* one mutex for the whole process
MutexOfProcess(s) == 1

\* the mutex that request s locks: the field of its own Exporter
MutexOf(s) == s

\* line 158: e.mutex.Lock()
Lock(s) ==
    /\ ~fatal
    /\ pc[s] = "Lock"
    /\ ~mutex[MutexOf(s)]
    /\ mutex' = [mutex EXCEPT ![MutexOf(s)] = TRUE]
    /\ pc' = [pc EXCEPT ![s] = "Lookup"]
    /\ UNCHANGED <<request, timeout, cacheTime, cacheMap, heap, now, iperfErrors, iperfDuration,
                   exporter, cur, stats, ch, response, errorLog, fatal, probeCalls, iperfArgs, before>>

\* the pointer the map holds for a key (0, nil, when the key is absent)
MapGet(key) == IF key \in DOMAIN cacheMap THEN cacheMap[key] ELSE 0

\* line 164: currentCacheExport, ok := cacheMap[e.target]; line 166: if !ok
Lookup(s) ==
    /\ ~fatal
    /\ pc[s] = "Lookup"
    /\ cur' = [cur EXCEPT ![s] = MapGet(exporter[s].target)]
    /\ pc' = [pc EXCEPT ![s] =
                 IF exporter[s].target \in DOMAIN cacheMap THEN "Check" ELSE "Insert"]
    /\ UNCHANGED <<request, timeout, cacheTime, cacheMap, heap, now, iperfErrors, iperfDuration,
                   exporter, mutex, stats, ch, response, errorLog, fatal, probeCalls, iperfArgs,
                   before>>

\* line 167: NewExpiredCacheExporter() allocates the entry (pointer s: a request
\* allocates at most one), and the write of cacheMap begins (runtime.mapassign)
MapAssignBegin(s) ==
    /\ ~fatal
    /\ pc[s] = "Insert"
    /\ \E year \in YearMinutes :
          heap' = [p \in DOMAIN heap \cup {s} |->
                      IF p = s THEN NewExpiredCacheExporter(year) ELSE heap[p]]
    /\ pc' = [pc EXCEPT ![s] = "Inserting"]
    /\ UNCHANGED <<request, timeout, cacheTime, cacheMap, now, iperfErrors, iperfDuration,
                   exporter, mutex, cur, stats, ch, response, errorLog, fatal, probeCalls, iperfArgs, before>>

\* line 167: cacheMap[e.target] = the new entry
MapAssign(s) ==
    /\ ~fatal
    /\ pc[s] = "Inserting"
    /\ cacheMap' = [k \in DOMAIN cacheMap \cup {exporter[s].target} |->
                       IF k = exporter[s].target THEN s ELSE cacheMap[k]]
    /\ pc' = [pc EXCEPT ![s] = "Relookup"]
    /\ UNCHANGED <<request, timeout, cacheTime, heap, now, iperfErrors, iperfDuration,
                   exporter, mutex, cur, stats, ch, response, errorLog, fatal, probeCalls, iperfArgs, before>>

\* line 168: currentCacheExport, ok = cacheMap[e.target]
Relookup(s) ==
    /\ ~fatal
    /\ pc[s] = "Relookup"
    /\ cur' = [cur EXCEPT ![s] = MapGet(exporter[s].target)]
    /\ pc' = [pc EXCEPT ![s] = "Check"]
    /\ UNCHANGED <<request, timeout, cacheTime, cacheMap, heap, now, iperfErrors, iperfDuration,
                   exporter, mutex, stats, ch, response, errorLog, fatal, probeCalls, iperfArgs,
                   before>>

\* The map is not synchronized.  When a goroutine reads or writes it while a
\* write of it by another goroutine is in progress, the runtime may detect it
\* and throw ("concurrent map read and map write", "concurrent map writes"),
\* which ends the process.
Throw(s) ==
    /\ ~fatal
    /\ pc[s] \in {"Lookup", "Relookup", "Inserting"}
    /\ \E t \in Sessions \ {s} : pc[t] = "Inserting"
    /\ fatal' = TRUE
    /\ UNCHANGED <<request, timeout, cacheTime, cacheMap, heap, now, iperfErrors, iperfDuration,
                   pc, exporter, mutex, cur, stats, ch, response, errorLog, probeCalls, iperfArgs, before>>

\* lines 173-176: the arguments of iperf3
IperfArgs(e) ==
    <<"-J", "-t", FormatFloat(e.period), "-c", e.target, "-p", Itoa(e.port),
      "-P", Itoa(e.thread)>>

\* line 171: the stale check; lines 173-178: a stale entry builds the arguments
\* and starts iperf3
Check(s) ==
    /\ ~fatal
    /\ pc[s] = "Check"
    /\ IF IsStale(heap[cur[s]])
       THEN /\ iperfArgs' = [iperfArgs EXCEPT ![s] = IperfArgs(exporter[s])]
            /\ pc' = [pc EXCEPT ![s] = "Probe"]
            /\ probeCalls' = [probeCalls EXCEPT ![s] = probeCalls[s] + 1]
       ELSE /\ pc' = [pc EXCEPT ![s] = "EmitThread"]
            /\ UNCHANGED <<probeCalls, iperfArgs>>
    /\ UNCHANGED <<request, timeout, cacheTime, cacheMap, heap, now, iperfErrors, iperfDuration,
                   exporter, mutex, cur, stats, ch, response, errorLog, fatal, before>>

\* what Collect leaves behind when it returns: the deferred Unlock, the locals
\* gone, the response written by ServeHTTP, and the handler's Observe (line 300)
Return(s) ==
    /\ mutex' = [mutex EXCEPT ![MutexOf(s)] = FALSE]
    /\ cur' = [cur EXCEPT ![s] = 0]
    /\ stats' = [stats EXCEPT ![s] = NoStats]
    /\ response' = [response EXCEPT ![s] = StatusOK]
    /\ iperfDuration' = iperfDuration + 1
    /\ pc' = [pc EXCEPT ![s] = "Done"]

Metric(name, value) == <<name, value>>

\* a failure path that has already stamped the entry
FailStamped(s, message) ==
    /\ ch' = [ch EXCEPT ![s] = Append(ch[s], Metric("success", 0))]
    /\ iperfErrors' = iperfErrors + 1
    /\ errorLog' = [errorLog EXCEPT ![s] = message]
    /\ heap' = [heap EXCEPT ![cur[s]].lastExport = now]
    /\ Return(s)
    /\ UNCHANGED <<request, timeout, cacheTime, cacheMap, now, exporter, fatal,
                   probeCalls, iperfArgs, before>>

\* a failure path that does not count the error
FailUncounted(s, message) ==
    /\ ch' = [ch EXCEPT ![s] = Append(ch[s], Metric("success", 0))]
    /\ errorLog' = [errorLog EXCEPT ![s] = message]
    /\ Return(s)
    /\ UNCHANGED <<request, timeout, cacheTime, cacheMap, heap, now, iperfErrors, exporter,
                   fatal, probeCalls, iperfArgs, before>>

\* a failure path that does not return: it goes on to the emission
FailGoingOn(s, message) ==
    /\ ch' = [ch EXCEPT ![s] = Append(ch[s], Metric("success", 0))]
    /\ iperfErrors' = iperfErrors + 1
    /\ errorLog' = [errorLog EXCEPT ![s] = message]
    /\ pc' = [pc EXCEPT ![s] = "EmitThread"]
    /\ UNCHANGED <<request, timeout, cacheTime, cacheMap, heap, now, iperfDuration, exporter,
                   mutex, cur, stats, response, fatal, probeCalls, iperfArgs, before>>

\* lines 180-185 and 188-193: the probe failed; success = 0 is the only metric
\* sent, the error is counted and logged, and Collect returns
Fail(s, message) ==
    /\ ch' = [ch EXCEPT ![s] = Append(ch[s], Metric("success", 0))]
    /\ iperfErrors' = iperfErrors + 1
    /\ errorLog' = [errorLog EXCEPT ![s] = message]
    /\ Return(s)
    /\ UNCHANGED <<request, timeout, cacheTime, cacheMap, heap, now, exporter, fatal,
                   probeCalls, iperfArgs, before>>

\* lines 178-185: iperf3 could not be started, exited with an error, or was
\* killed when the context's deadline passed
ProbeExecError(s) ==
    /\ ~fatal
    /\ pc[s] = "Probe"
    /\ Fail(s, "Failed to run iperf3")

\* lines 187-193: iperf3 ran to its end within the deadline (which takes a
\* deadline in the future) and its output is not JSON
ProbeParseError(s) ==
    /\ ~fatal
    /\ pc[s] = "Probe"
    /\ IsPositive(exporter[s].timeout)
    /\ Fail(s, "Failed to parse iperf3 result")

\* lines 178-188: iperf3 ran to its end within the deadline and its output parses
ProbeOk(s, out) ==
    /\ ~fatal
    /\ pc[s] = "Probe"
    /\ IsPositive(exporter[s].timeout)
    /\ stats' = [stats EXCEPT ![s] = out]
    /\ pc' = [pc EXCEPT ![s] = "WriteThread"]
    /\ UNCHANGED <<request, timeout, cacheTime, cacheMap, heap, now, iperfErrors, iperfDuration,
                   exporter, mutex, cur, ch, response, errorLog, fatal, probeCalls, iperfArgs,
                   before>>

\* the field that each write step of lines 195-200 assigns, its value, and the
\* step that follows
WriteField(s, at) ==
    CASE at = "WriteThread" -> <<"cachedThread", exporter[s].thread, "WriteSentSeconds">>
      [] at = "WriteSentSeconds" -> <<"cachedSentSeconds", stats[s].sentSeconds, "WriteSentBytes">>
      [] at = "WriteSentBytes" -> <<"cachedSentBytes", stats[s].sentBytes, "WriteReceivedSeconds">>
      [] at = "WriteReceivedSeconds" -> <<"cachedReceivedSeconds", stats[s].receivedSeconds, "WriteReceivedBytes">>
      [] at = "WriteReceivedBytes" -> <<"cachedReceivedBytes", stats[s].receivedBytes, "WriteLastExport">>
      [] at = "WriteLastExport" -> <<"lastExport", now, "EmitThread">>

WriteSteps ==
    {"WriteThread", "WriteSentSeconds", "WriteSentBytes", "WriteReceivedSeconds",
     "WriteReceivedBytes", "WriteLastExport"}

\* lines 195-200: one assignment to a field of *currentCacheExport
Write(s) ==
    /\ ~fatal
    /\ pc[s] \in WriteSteps
    /\ LET w == WriteField(s, pc[s])
       IN  /\ heap' = [heap EXCEPT ![cur[s]] = [@ EXCEPT ![w[1]] = w[2]]]
           /\ pc' = [pc EXCEPT ![s] = w[3]]
    /\ UNCHANGED <<request, timeout, cacheTime, cacheMap, now, iperfErrors, iperfDuration,
                   exporter, mutex, cur, stats, ch, response, errorLog, fatal, probeCalls, iperfArgs, before>>

\* an emission that reports the thread count the request asked for
EmitFieldOwnThread(s, at) ==
    LET entry == heap[cur[s]]
    IN  CASE at = "EmitThread" ->
                <<<<Metric("nb_thread", exporter[s].thread), Metric("success", 1)>>,
                  "EmitSentSeconds">>
          [] at = "EmitSentSeconds" ->
                <<<<Metric("sent_seconds", entry.cachedSentSeconds)>>, "EmitSentBytes">>
          [] at = "EmitSentBytes" ->
                <<<<Metric("sent_bytes", entry.cachedSentBytes)>>, "EmitReceivedSeconds">>
          [] at = "EmitReceivedSeconds" ->
                <<<<Metric("received_seconds", entry.cachedReceivedSeconds)>>,
                  "EmitReceivedBytes">>
          [] at = "EmitReceivedBytes" ->
                <<<<Metric("received_bytes", entry.cachedReceivedBytes)>>, "Done">>

\* the metrics that each emit step of lines 204-209 sends, and the step that
\* follows (success = 1 reads nothing shared: it is sent with the thread count)
EmitField(s, at) ==
    LET entry == heap[cur[s]]
    IN  CASE at = "EmitThread" ->
                <<<<Metric("nb_thread", entry.cachedThread), Metric("success", 1)>>,
                  "EmitSentSeconds">>
          [] at = "EmitSentSeconds" ->
                <<<<Metric("sent_seconds", entry.cachedSentSeconds)>>, "EmitSentBytes">>
          [] at = "EmitSentBytes" ->
                <<<<Metric("sent_bytes", entry.cachedSentBytes)>>, "EmitReceivedSeconds">>
          [] at = "EmitReceivedSeconds" ->
                <<<<Metric("received_seconds", entry.cachedReceivedSeconds)>>,
                  "EmitReceivedBytes">>
          [] at = "EmitReceivedBytes" ->
                <<<<Metric("received_bytes", entry.cachedReceivedBytes)>>, "Done">>

EmitSteps ==
    {"EmitThread", "EmitSentSeconds", "EmitSentBytes", "EmitReceivedSeconds"}

\* lines 204-208: one read of a field of *currentCacheExport, sent as a gauge
Emit(s) ==
    /\ ~fatal
    /\ pc[s] \in EmitSteps
    /\ LET e == EmitField(s, pc[s])
       IN  /\ ch' = [ch EXCEPT ![s] = ch[s] \o e[1]]
           /\ pc' = [pc EXCEPT ![s] = e[2]]
    /\ UNCHANGED <<request, timeout, cacheTime, cacheMap, heap, now, iperfErrors, iperfDuration,
                   exporter, mutex, cur, stats, response, errorLog, fatal, probeCalls, iperfArgs,
                   before>>

\* line 209 and the return of Collect
EmitLast(s) ==
    /\ ~fatal
    /\ pc[s] = "EmitReceivedBytes"
    /\ ch' = [ch EXCEPT ![s] = ch[s] \o EmitField(s, pc[s])[1]]
    /\ Return(s)
    /\ UNCHANGED <<request, timeout, cacheTime, cacheMap, heap, now, iperfErrors, exporter,
                   errorLog, fatal, probeCalls, iperfArgs, before>>

\* time passes
Tick ==
    /\ ~fatal
    /\ now < MaxNow
    /\ now' = now + 1
    /\ UNCHANGED <<request, timeout, cacheTime, cacheMap, heap, iperfErrors, iperfDuration, pc,
                   exporter, mutex, cur, stats, ch, response, errorLog, fatal, probeCalls, iperfArgs, before>>

\* one step of the Collect of request s
Collect(s) ==
    \/ Lock(s)
    \/ Lookup(s)
    \/ MapAssignBegin(s)
    \/ MapAssign(s)
    \/ Relookup(s)
    \/ Throw(s)
    \/ Check(s)
    \/ ProbeExecError(s)
    \/ ProbeParseError(s)
    \/ \E out \in ProbeOutputs : ProbeOk(s, out)
    \/ Write(s)
    \/ Emit(s)
    \/ EmitLast(s)

Next ==
    \/ \E s \in Sessions, req \in ScrapeRequests : handler(s, req)
    \/ \E s \in Sessions : Collect(s)
    \/ Tick

Spec == Init /\ [][Next]_vars

\* the handler alone, on the first request of the process, over every
\* combination of the inputs
NextHandler == \E req \in AllRequests : handler(1, req)

SpecHandler == InitHandler /\ [][NextHandler]_vars

(***************************************************************************)
(* Vocabulary of the properties                                            *)
(***************************************************************************)
Range(seq) == {seq[i] : i \in DOMAIN seq}

\* a Collection Session (an Exporter) was constructed for request s
HasSession(s) == exporter[s] # NoExporter

\* Collect of s is between Lock and its return
Active(s) == pc[s] \notin {"Idle", "Done"}

\* the steps of Collect after the stale check
AfterCheck == {"Probe"} \cup WriteSteps \cup EmitSteps \cup {"EmitReceivedBytes", "Done"}

\* s ended with the full Metric Set (success = 1) / with success = 0
Succeeded(s) == pc[s] = "Done" /\ Metric("success", 1) \in Range(ch[s])

Failed(s) == pc[s] = "Done" /\ Metric("success", 0) \in Range(ch[s])

SameTarget(s, t) ==
    HasSession(s) /\ HasSession(t) /\ exporter[s].target = exporter[t].target

\* s and t are sessions of the same target and overlap in time: s had not
\* ended when t arrived
Concurrent(s, t) == s < t /\ s \notin before[t] /\ SameTarget(s, t)

\* the target of s and t was scraped twice, in sequence: s had ended when t
\* arrived, and no other request has named the target
InSequence(s, t) ==
    /\ s \in before[t]
    /\ SameTarget(s, t)
    /\ \A u \in Sessions \ {s, t} : exporter[u].target # exporter[s].target

\* the entry the cache holds for the target of t
EntryOf(t) == heap[cacheMap[exporter[t].target]]

\* t takes its stale check in this step
Checks(t) == pc[t] = "Check" /\ pc'[t] # "Check"

\* a step of the Collect of t other than the runtime's throw
Proceed(t) ==
    \/ Lock(t)
    \/ Lookup(t)
    \/ MapAssignBegin(t)
    \/ MapAssign(t)
    \/ Relookup(t)
    \/ Check(t)
    \/ ProbeExecError(t)
    \/ ProbeParseError(t)
    \/ \E out \in ProbeOutputs : ProbeOk(t, out)
    \/ Write(t)
    \/ Emit(t)
    \/ EmitLast(t)

(***************************************************************************)
(* Properties                                                              *)
(***************************************************************************)
\* C1: at most one probe is in flight for a target at any time: no two
\* sessions of the same target are both between the start and the end of
\* their iperf3 run.
C1_OneProbeInFlightPerTarget ==
    \A s, t \in Sessions :
        (s # t /\ pc[s] = "Probe" /\ pc[t] = "Probe")
            => exporter[s].target # exporter[t].target

\* C2: two sessions of one target that overlap in time, that found the entry
\* stale and whose probes succeed (under a TTL that outlasts the run, so that
\* a refreshed entry is fresh for whoever comes second), run exactly one
\* probe between them.
C2_ConcurrentScrapesProbeOnce ==
    \A s, t \in Sessions :
        (/\ Concurrent(s, t)
         /\ Succeeded(s) /\ Succeeded(t)
         /\ cacheTime > MaxNow
         /\ probeCalls[s] + probeCalls[t] >= 1)
            => probeCalls[s] + probeCalls[t] = 1

\* C3: sessions of different targets never wait on each other: while the
\* probe of s is in flight, an active session t of another target can take
\* its next step, whichever that is (Lock, the map accesses, the stale check,
\* the end of its own probe, the writes, the emission).
C3_DifferentTargetsNeverWait ==
    \A s, t \in Sessions :
        (/\ ~fatal
         /\ pc[s] = "Probe"
         /\ Active(t)
         /\ exporter[t].target # exporter[s].target)
            => ENABLED Proceed(t)

\* a session arrived while another target's probe was in flight, ran its own
\* probe and ended, and the other probe is still in flight
C3_Witness ==
    \E s, t \in Sessions :
        /\ s < t /\ s \notin before[t]
        /\ pc[s] = "Probe"
        /\ Succeeded(t) /\ probeCalls[t] = 1
        /\ exporter[t].target # exporter[s].target

\* C4: whatever the TTL, the first scrape of a target runs a real probe: a
\* session that looks at the entry it has itself just created (no other
\* request having named the target) finds it stale, and the placeholder zeros
\* are never emitted with success = 1.
C4_FirstScrapeProbes ==
    \A s \in Sessions :
        /\ (/\ cur[s] = s /\ pc[s] \in AfterCheck
            /\ \A u \in Sessions \ {s} : exporter[u].target # exporter[s].target)
               => probeCalls[s] = 1
        /\ Metric("success", 1) \in Range(ch[s])
              => Metric("nb_thread", 0) \notin Range(ch[s])

\* C5: when a target is scraped twice in sequence, the first probe succeeded
\* and the second stale check comes less than the TTL after the refresh, the
\* second scrape runs no probe and emits exactly the metrics of the first.
C5_FreshEntryIsReused ==
    /\ [][\A s, t \in Sessions :
            (/\ InSequence(s, t)
             /\ Succeeded(s) /\ probeCalls[s] = 1
             /\ Checks(t)
             /\ now - EntryOf(t).lastExport < cacheTime)
                => (pc'[t] = "EmitThread" /\ probeCalls'[t] = 0)]_vars
    /\ [](\A s, t \in Sessions :
            (/\ InSequence(s, t)
             /\ Succeeded(s) /\ probeCalls[s] = 1
             /\ Succeeded(t) /\ probeCalls[t] = 0)
                => ch[t] = ch[s])

\* the second scrape of a target has ended without a probe, within the TTL of
\* the first one's refresh
C5_Witness ==
    \E s, t \in Sessions :
        /\ InSequence(s, t)
        /\ Succeeded(s) /\ probeCalls[s] = 1
        /\ Succeeded(t) /\ probeCalls[t] = 0
        /\ Len(ch[t]) = 6

\* C6: when a target is scraped twice in sequence, the first probe succeeded,
\* and the TTL is zero or at least the TTL has passed between the refresh and
\* the second stale check (the boundary included), the second scrape runs
\* exactly one probe.
C6_StaleEntryIsProbedOnce ==
    /\ [][\A s, t \in Sessions :
            (/\ InSequence(s, t)
             /\ Succeeded(s) /\ probeCalls[s] = 1
             /\ Checks(t)
             /\ (cacheTime = 0 \/ now - EntryOf(t).lastExport >= cacheTime))
                => (pc'[t] = "Probe" /\ probeCalls'[t] = 1)]_vars
    /\ [](\A t \in Sessions : probeCalls[t] <= 1)

\* the second probe is in flight exactly one TTL (of one minute) after the
\* refresh of the first scrape
C6_Witness ==
    \E s, t \in Sessions :
        /\ InSequence(s, t)
        /\ Succeeded(s) /\ probeCalls[s] = 1
        /\ pc[t] = "Probe" /\ probeCalls[t] = 1
        /\ cacheTime = 1
        /\ now - EntryOf(t).lastExport = cacheTime

\* C7: a session whose probe fails (execution or parse error) emits success = 0
\* and nothing else and changes no cache entry and not the map; so when the
\* target is scraped again, in sequence, the entry is still stale and the
\* second scrape probes again.
C7_FailureLeavesEntry ==
    /\ [][\A s \in Sessions :
            (pc[s] = "Probe" /\ pc'[s] = "Done")
                => (/\ heap' = heap
                    /\ cacheMap' = cacheMap
                    /\ ch'[s] = <<Metric("success", 0)>>)]_vars
    /\ [](\A s, t \in Sessions :
            (InSequence(s, t) /\ Failed(s) /\ pc[t] \in AfterCheck)
                => probeCalls[t] = 1)

\* after a scrape that failed on unparseable output, the next scrape of the
\* target has its probe in flight
C7_Witness ==
    \E s, t \in Sessions :
        /\ InSequence(s, t)
        /\ Failed(s) /\ errorLog[s] = "Failed to parse iperf3 result"
        /\ pc[t] = "Probe"

\* the timeout of a session is above the ceiling of 30 seconds
AboveMaxTimeout(d) == d.sat = 1 \/ (d.sat = 0 /\ d.ms > MaxTimeout)

\* C8: the timeout handed to the probe never exceeds 30 seconds, whatever its
\* source (header, flag, fallback).
C8_TimeoutAtMost30s ==
    \A s \in Sessions : HasSession(s) => ~AboveMaxTimeout(exporter[s].timeout)

\* the lesser of a number of milliseconds and the ceiling
Capped(ms) == IF ms > MaxTimeout THEN MaxTimeout ELSE ms

\* the timeouts that the stated precedence allows for a valid request: the
\* header's value whenever the header is given (it parses, the request being
\* valid), capped; only without a header the flag if non-zero, else 30 seconds
StatedTimeouts(req) ==
    LET hdr == ParseFloat(req.header).val
    IN  IF req.header # <<>>
        THEN (IF hdr.kind = "fin" THEN {Duration(Capped(hdr.ms))}
              ELSE IF hdr = Inf(1) THEN {Duration(MaxTimeout)}
              ELSE DurationOfFloat(hdr))
        ELSE IF timeout # 0 THEN {Duration(Capped(timeout))}
        ELSE {Duration(FallbackTimeout)}

\* C9 as stated: the header's value is used whenever the header is present
\* and parseable; the flag, if non-zero, only when the header is absent.
C9_HeaderWheneverPresent ==
    \A s \in Sessions :
        HasSession(s) => exporter[s].timeout \in StatedTimeouts(request[s])

\* the timeouts that the code's precedence allows: the header's value when the
\* header is given and is not zero, capped; the flag when the header is absent
\* or zero and the flag is positive, capped; else 30 seconds.  A header of NaN
\* or -Inf passes the default and the cap, and its conversion to a Duration is
\* left to the implementation.
AmendedTimeouts(req) ==
    LET hdr == ParseFloat(req.header).val
    IN  IF req.header # <<>> /\ ~(hdr.kind = "fin" /\ hdr.ms = 0)
        THEN (IF hdr.kind = "fin" THEN {Duration(Capped(hdr.ms))}
              ELSE IF hdr = Inf(1) THEN {Duration(MaxTimeout)}
              ELSE DurationOfFloat(hdr))
        ELSE IF timeout > 0 THEN {Duration(Capped(timeout))}
        ELSE {Duration(FallbackTimeout)}

\* C9 amended: the header's value is used when the header is present, parseable
\* and not zero; the flag, if positive, when the header is absent or zero.
C9_HeaderUnlessZero ==
    \A s \in Sessions :
        HasSession(s) => exporter[s].timeout \in AmendedTimeouts(request[s])

\* a header of 0.5 seconds has overridden a flag of 45 seconds
C9_Witness ==
    /\ HasSession(1)
    /\ request[1].header = <<"0", ".", "5">>
    /\ timeout = 45000
    /\ exporter[1].timeout = Duration(500)

\* the unparseable values among the inputs
NotAnInteger == {<<"a", "b", "c">>, <<"x">>}

NotADuration == {<<"5">>}

NotAFloat == {<<"n", "o", "t", "a", "n", "u", "m", "b", "e", "r">>}

BadRequest(req) ==
    \/ req.target = ""
    \/ req.port \in NotAnInteger
    \/ req.thread \in NotAnInteger
    \/ req.period \in NotADuration

BadHeader(req) == ~BadRequest(req) /\ req.header \in NotAFloat

\* the request s has arrived in this step
Arrives(s) == pc[s] = "Idle" /\ pc'[s] # "Idle"

\* C10: a request with a missing or empty target or an unparseable port, thread
\* or period is answered 400, and one with (only) an unparseable timeout header
\* 500; for neither is a session constructed, a probe run, or a cache entry
\* created or changed, then or later.
C10_InvalidRequestStopsAtHandler ==
    /\ [][\A s \in Sessions :
            (Arrives(s) /\ (BadRequest(request'[s]) \/ BadHeader(request'[s])))
                => (/\ pc'[s] = "Done"
                    /\ heap' = heap
                    /\ cacheMap' = cacheMap
                    /\ probeCalls' = probeCalls)]_vars
    /\ [](\A s \in Sessions :
            (pc[s] # "Idle" /\ (BadRequest(request[s]) \/ BadHeader(request[s])))
                => (/\ response[s] = IF BadRequest(request[s]) THEN StatusBadRequest
                                     ELSE StatusInternalServerError
                    /\ pc[s] = "Done"
                    /\ ~HasSession(s)
                    /\ probeCalls[s] = 0
                    /\ ch[s] = <<>>
                    /\ s \notin DOMAIN heap
                    /\ \A k \in DOMAIN cacheMap : cacheMap[k] # s))

\* one request was answered 500 and another 400, while nothing is cached
C10_Witness ==
    \E s, t \in Sessions :
        /\ BadHeader(request[s]) /\ response[s] = StatusInternalServerError
        /\ request[t].period \in NotADuration /\ response[t] = StatusBadRequest
        /\ cacheMap = <<>>

\* the port, the thread count and the period (ms) that the stated defaulting
\* gives each parseable input
StatedPort(raw) ==
    CASE raw = <<>> -> 5201
      [] raw = <<"0">> -> 5201
      [] raw = <<"8", "0">> -> 80

StatedThread(raw) ==
    CASE raw = <<>> -> 1
      [] raw = <<"0">> -> 1
      [] raw = <<"-", "3">> -> 1
      [] raw = <<"4">> -> 4

StatedPeriod(raw) ==
    CASE raw = <<>> -> 5000
      [] raw = <<"0">> -> 5000
      [] raw = <<"2", "s">> -> 2000
      [] raw = <<"5", "0", "0", "m", "s">> -> 500
      [] raw = <<"-", "5", "s">> -> 0 - 5000

\* C11: every session is constructed with defaulted parameters: port absent or
\* 0 gives 5201, thread absent or <= 0 gives 1 (so the thread count is >= 1),
\* period absent or zero gives 5 seconds, and every other parseable value is
\* the session's value unchanged, as is the target.
C11_DefaultsBeforeSession ==
    \A s \in Sessions :
        HasSession(s) =>
            /\ exporter[s].target = request[s].target
            /\ exporter[s].port = StatedPort(request[s].port)
            /\ exporter[s].thread = StatedThread(request[s].thread)
            /\ exporter[s].thread >= 1
            /\ exporter[s].period = StatedPeriod(request[s].period)

\* a session was constructed for thread=-3, port=80 and period=500ms
C11_Witness ==
    /\ HasSession(1)
    /\ request[1].thread = <<"-", "3">> /\ exporter[1].thread = 1
    /\ request[1].port = <<"8", "0">> /\ exporter[1].port = 80
    /\ request[1].period = <<"5", "0", "0", "m", "s">> /\ exporter[1].period = 500

\* the scrape of s has failed: it was answered 400 or 500 by the handler, or
\* its Collect returned on a failed probe
FailedScrape(s) == pc[s] = "Done" /\ (response[s] # StatusOK \/ Failed(s))

\* C12: the error counter counts every failed scrape exactly once, whatever
\* the kind of failure (rejected by the handler, execution error, parse error):
\* it always equals the number of scrapes that have failed, and it never
\* decreases.
C12_OneErrorPerFailure ==
    /\ [](iperfErrors = Cardinality({s \in Sessions : FailedScrape(s)}))
    /\ [][iperfErrors' >= iperfErrors]_vars

\* one request was answered 500, another's iperf3 run failed, and the counter
\* is at 2
C12_Witness ==
    \E s, t \in Sessions :
        /\ response[s] = StatusInternalServerError
        /\ Failed(t) /\ errorLog[t] = "Failed to run iperf3"
        /\ iperfErrors = 2

\* the names of the gauges a session has sent, in the order sent
GaugeNames(sent) == [i \in DOMAIN sent |-> sent[i][1]]

\* the names of the full Metric Set, in the order of lines 204-209
FullMetricSet ==
    <<"nb_thread", "success", "sent_seconds", "sent_bytes", "received_seconds",
      "received_bytes">>

\* the session s ended RefreshFailed / RefreshedOrFresh
RefreshFailed(s) == ch[s] = <<Metric("success", 0)>>

RefreshedOrFresh(s) ==
    GaugeNames(ch[s]) = FullMetricSet /\ ch[s][2] = Metric("success", 1)

\* C13: a session whose Collect has returned is in exactly one of two
\* outcomes: only success = 0 was sent, or success = 1 together with the thread
\* count and the four measured quantities, each once.  In no state has a
\* session sent success = 0 with any other gauge, or the success gauge twice,
\* and what a session with success = 1 has sent is always the beginning of the
\* full Metric Set.
C13_TwoTerminalOutcomes ==
    \A s \in Sessions :
        /\ (HasSession(s) /\ pc[s] = "Done")
              => (RefreshFailed(s) /\ ~RefreshedOrFresh(s))
                 \/ (RefreshedOrFresh(s) /\ ~RefreshFailed(s))
        /\ Metric("success", 0) \in Range(ch[s]) => RefreshFailed(s)
        /\ Cardinality({i \in DOMAIN ch[s] : ch[s][i][1] = "success"}) <= 1
        /\ GaugeNames(ch[s]) # <<"success">>
              => GaugeNames(ch[s]) = SubSeq(FullMetricSet, 1, Len(ch[s]))

\* one session has ended with success = 0 alone and another with the six gauges
C13_Witness ==
    \E s, t \in Sessions :
        /\ pc[s] = "Done" /\ RefreshFailed(s)
        /\ pc[t] = "Done" /\ RefreshedOrFresh(t)

\* the four measured quantities of an entry / the four that a session has sent
Quantities(entry) ==
    [sentSeconds |-> entry.cachedSentSeconds, sentBytes |-> entry.cachedSentBytes,
     receivedSeconds |-> entry.cachedReceivedSeconds,
     receivedBytes |-> entry.cachedReceivedBytes]

SentQuantities(sent) ==
    [sentSeconds |-> sent[3][2], sentBytes |-> sent[4][2],
     receivedSeconds |-> sent[5][2], receivedBytes |-> sent[6][2]]

\* the entry is as one successful probe left it: the thread count of a session
\* and the four quantities of one iperf3 result
FromOneProbe(entry) == entry.cachedThread >= 1 /\ Quantities(entry) \in ProbeOutputs

\* the entry is the placeholder of NewExpiredCacheExporter, never written
\* since (the case of C4)
NeverRefreshed(entry) == entry.cachedThread = 0 /\ Quantities(entry) = NoStats

\* the steps of Collect in which it reads the entry to emit (lines 204-209)
Emitting == EmitSteps \cup {"EmitReceivedBytes"}

\* C14: in every state in which a session reads an entry to emit, the entry's
\* thread count and four quantities come from one single successful probe
\* (or the entry was never refreshed), and the four quantities of every full
\* Metric Set that was emitted are those of one iperf3 result (or of the
\* placeholder).
C14_NoTornEntry ==
    \A s \in Sessions :
        /\ pc[s] \in Emitting
              => FromOneProbe(heap[cur[s]]) \/ NeverRefreshed(heap[cur[s]])
        /\ Succeeded(s) => SentQuantities(ch[s]) \in ProbeOutputs \cup {NoStats}

(***************************************************************************)
(* Requests of one target, one after the other                             *)
(***************************************************************************)
\* requests for target a without a timeout header, which differ in port,
\* thread count and period
TurnRequests ==
    {r \in AllRequests :
        /\ r.target = "a"
        /\ r.header = <<>>
        /\ r.port \in {<<>>, <<"8", "0">>}
        /\ r.thread \in {<<>>, <<"4">>}
        /\ r.period \in {<<>>, <<"2", "s">>, <<"5", "0", "0", "m", "s">>, <<"-", "5", "s">>}}

\* a request that arrives when the requests before it have been answered
handlerInTurn(s, req) ==
    /\ \A t \in Sessions : t < s => pc[t] = "Done"
    /\ handler(s, req)

NextInTurn ==
    \/ \E s \in Sessions, req \in TurnRequests : handlerInTurn(s, req)
    \/ \E s \in Sessions : Proceed(s)
    \/ Tick

SpecInTurn == Init /\ [][NextInTurn]_vars

\* s and t were constructed with a different thread count, port or period
DifferentConfiguration(s, t) ==
    \/ exporter[s].thread # exporter[t].thread
    \/ exporter[s].port # exporter[t].port
    \/ exporter[s].period # exporter[t].period

\* C15: the cache is keyed by the target alone: when a target was probed
\* successfully by a session s and is scraped again by a session t that asks
\* for another thread count, port or period, and the stale check of t comes
\* within the TTL, then t runs no probe and emits what s emitted: the thread
\* count of s and the quantities of the probe of s.
C15_KeyedByTargetAlone ==
    /\ [][\A s, t \in Sessions :
            (/\ InSequence(s, t)
             /\ Succeeded(s) /\ probeCalls[s] = 1
             /\ DifferentConfiguration(s, t)
             /\ Checks(t)
             /\ now - EntryOf(t).lastExport < cacheTime)
                => (pc'[t] = "EmitThread" /\ probeCalls'[t] = 0)]_vars
    /\ [](\A s, t \in Sessions :
            (/\ InSequence(s, t)
             /\ Succeeded(s) /\ probeCalls[s] = 1
             /\ DifferentConfiguration(s, t)
             /\ Succeeded(t) /\ probeCalls[t] = 0)
                => (/\ ch[t][1] = Metric("nb_thread", exporter[s].thread)
                    /\ SentQuantities(ch[t]) = SentQuantities(ch[s])
                    /\ iperfArgs[t] = <<>>))

\* after a probe with 1 thread, a scrape that asked for 4 threads has ended
\* without a probe and has reported 1 thread
C15_Witness ==
    \E s, t \in Sessions :
        /\ InSequence(s, t)
        /\ Succeeded(s) /\ probeCalls[s] = 1 /\ exporter[s].thread = 1
        /\ Succeeded(t) /\ probeCalls[t] = 0 /\ exporter[t].thread = 4
        /\ ch[t][1] = Metric("nb_thread", 1)

(***************************************************************************)
(* Scheduling                                                              *)
(***************************************************************************)
\* The Go scheduler runs every goroutine that can run, and an iperf3 run ends
\* by itself or is killed when the deadline of its context passes: a Collect
\* that can take a step eventually takes one.
SpecFair == Init /\ [][Next]_vars /\ \A s \in Sessions : WF_vars(Collect(s))

\* what belongs to session t alone
Own(t) ==
    <<pc[t], exporter[t], cur[t], stats[t], ch[t], response[t], errorLog[t],
      probeCalls[t], iperfArgs[t], mutex[MutexOf(t)]>>

\* the iperf3 run of s ends in this step with an execution error (the case of
\* a run killed at the deadline)
Cancelled(s) ==
    pc[s] = "Probe" /\ pc'[s] = "Done" /\ errorLog'[s] = "Failed to run iperf3"

\* an iperf3 run that ends with an execution error, as one killed at the
\* deadline does, leaves its session with success = 0 and changes nothing that
\* belongs to another session and not the cache
CancellationIsLocal ==
    [][\A s \in Sessions :
            Cancelled(s)
                => (/\ ch'[s] = <<Metric("success", 0)>>
                    /\ \A t \in Sessions \ {s} : Own(t)' = Own(t)
                    /\ heap' = heap /\ cacheMap' = cacheMap /\ fatal' = fatal)]_vars

\* C16: every session that has begun eventually reaches a terminal outcome
\* (its Collect returns), and the end of an iperf3 run at its deadline leaves
\* its session with success = 0 and every other session as it was.
C16_EverySessionEnds ==
    /\ \A s \in Sessions : Active(s) ~> (pc[s] = "Done")
    /\ CancellationIsLocal

\* the steps of Collect that access cacheMap: the reads of lines 164 and 168,
\* and the assignment of line 167 while it is in progress
MapAccess == {"Lookup", "Relookup", "Inserting"}

\* C17: the process never fails on the shared cache map: the runtime has not
\* thrown, and while the insertion of one session is in progress no other
\* session is reading the map or inserting into it.
C17_NoConcurrentMapAccess ==
    /\ ~fatal
    /\ \A s, t \in Sessions :
          (s # t /\ pc[s] = "Inserting") => pc[t] \notin MapAccess

\* C18: the timeout of every session that is constructed is strictly positive,
\* whatever the header (zero and negative numbers included) and the flag.
C18_TimeoutPositive ==
    \A s \in Sessions : HasSession(s) => IsPositive(exporter[s].timeout)

\* the measurement duration among the arguments of iperf3: the one after "-t"
DurationArgument(args) == args[3]

\* C19: whenever a session has built the arguments of iperf3, the measurement
\* duration among them is a whole number of seconds that is at least 1.
C19_DurationArgumentAtLeastOne ==
    \A s \in Sessions :
        iperfArgs[s] # <<>>
            => (/\ ~Atoi(DurationArgument(iperfArgs[s])).err
                /\ Atoi(DurationArgument(iperfArgs[s])).val >= 1)

\* the entry the cache holds for the key k
CachedEntry(k) == heap[cacheMap[k]]

\* the session s takes a step of its handler or its Collect
Steps(s) == pc'[s] # pc[s]

\* the session s has found the entry of its target fresh
FoundFresh(s) == pc[s] \in Emitting /\ probeCalls[s] = 0

\* the step assigns a field of the entry of k after a successful probe of k
RefreshOf(s, k) == pc[s] \in WriteSteps /\ exporter[s].target = k

\* the step changes what the cache holds for k (a placeholder that takes the
\* place of a placeholder, neither refreshed by any probe, is not a change)
Changes(k) ==
    /\ CachedEntry(k)' # CachedEntry(k)
    /\ ~(NeverRefreshed(CachedEntry(k)) /\ NeverRefreshed(CachedEntry(k)'))

\* C20: a step of a session for target T leaves every key in the cache (no
\* entry is ever removed) and the entries of all other targets as they were;
\* a session that found the entry of T fresh changes no entry; and the
\* timestamp and the values of the entry of a target change only in the writes
\* that follow a successful probe of that target.
C20_SessionChangesOwnEntryOnly ==
    [][\A s \in Sessions :
           Steps(s)
               => (/\ \A k \in DOMAIN cacheMap : k \in DOMAIN cacheMap'
                   /\ \A k \in DOMAIN cacheMap :
                         k # exporter'[s].target => CachedEntry(k)' = CachedEntry(k)
                   /\ FoundFresh(s) => (heap' = heap /\ cacheMap' = cacheMap)
                   /\ \A k \in DOMAIN cacheMap : Changes(k) => RefreshOf(s, k))]_vars

====
